---- MODULE Spec2Model ----
(***************************************************************************)
(* A model of the two workflow nodes of autotask_i18n (src/index.py):      *)
(* GenerateTypesTS (zh.ts -> types.ts) and CompareI18nKeys (key-set diff   *)
(* of two catalogs).                                                       *)
(*                                                                         *)
(* Text is a sequence of one-character strings.  The words "export",       *)
(* "default" and "const" and the word "string" of the emitted interface    *)
(* are single tokens standing for their run of word characters; literal    *)
(* message phrases are single tokens as well.                              *)
(***************************************************************************)
EXTENDS Integers, Sequences, FiniteSets, TLC

\* ------------------------------------------------------------------------
\* Characters
\* ------------------------------------------------------------------------
NL == "\n"
SP == " "
SQ == "'"
DQ == "\""

\* Python's \s, restricted to the characters the inputs contain.
IsSpace(c) == c \in {SP, NL}

\* Python's \w, restricted to the characters the inputs contain.
IsWord(c) == c \in {"a", "b", "x", "export", "default", "const"}

\* ------------------------------------------------------------------------
\* Sequence helpers standing for Python's str methods
\* ------------------------------------------------------------------------
\* str.find(c): the first index of c in s, 0 when absent.
IndexOf(s, c) ==
    IF \E i \in 1..Len(s) : s[i] = c
    THEN CHOOSE i \in 1..Len(s) : s[i] = c /\ \A j \in 1..(i - 1) : s[j] # c
    ELSE 0

\* The last index of c in s, 0 when absent.
LastIndexOf(s, c) ==
    IF \E i \in 1..Len(s) : s[i] = c
    THEN CHOOSE i \in 1..Len(s) : s[i] = c /\ \A j \in (i + 1)..Len(s) : s[j] # c
    ELSE 0

\* s[i-1:] in Python terms: the suffix that starts at index i.
From(s, i) == SubSeq(s, i, Len(s))

\* str.lstrip(chars) / str.rstrip(chars) / str.strip(chars), chars a set.
LStripSet(s, cs) ==
    IF \A i \in 1..Len(s) : s[i] \in cs
    THEN << >>
    ELSE From(s, CHOOSE i \in 1..Len(s) : s[i] \notin cs /\ \A j \in 1..(i - 1) : s[j] \in cs)

RStripSet(s, cs) ==
    IF \A i \in 1..Len(s) : s[i] \in cs
    THEN << >>
    ELSE SubSeq(s, 1, CHOOSE i \in 1..Len(s) :
                          s[i] \notin cs /\ \A j \in (i + 1)..Len(s) : s[j] \in cs)

StripSet(s, cs) == RStripSet(LStripSet(s, cs), cs)

\* str.strip() with no argument: whitespace.
Strip(s) == StripSet(s, {SP, NL})

\* The concatenation of the pieces ps[lo..hi].
RECURSIVE Flatten(_, _, _)
Flatten(ps, lo, hi) ==
    IF lo > hi THEN << >>
    ELSE IF lo = hi THEN ps[lo]
    ELSE Flatten(ps, lo, (lo + hi) \div 2) \o Flatten(ps, (lo + hi) \div 2 + 1, hi)

\* The index of the k-th line break of s; 0 before the first line and
\* Len(s) + 1 after the last.
LineBreak(s, k) ==
    IF k = 0 THEN 0
    ELSE IF k > Cardinality({ i \in 1..Len(s) : s[i] = NL }) THEN Len(s) + 1
    ELSE CHOOSE i \in 1..Len(s) :
             s[i] = NL /\ Cardinality({ j \in 1..i : s[j] = NL }) = k

\* str.split('\n'): the lines of s, at least one.
SplitLines(s) ==
    [ k \in 1..(Cardinality({ i \in 1..Len(s) : s[i] = NL }) + 1) |->
        SubSeq(s, LineBreak(s, k - 1) + 1, LineBreak(s, k) - 1) ]

\* "\n".join(lines)
JoinLines(ls) ==
    Flatten([ k \in 1..Len(ls) |-> IF k = 1 THEN ls[k] ELSE << NL >> \o ls[k] ], 1, Len(ls))

\* "  " * n
Indent(n) == [ i \in 1..(2 * n) |-> SP ]

\* x in s for texts: x occurs in s as a contiguous run.
Contains(s, x) ==
    \E i \in 1..(Len(s) + 1) : i + Len(x) - 1 <= Len(s) /\ SubSeq(s, i, i + Len(x) - 1) = x

\* The first index >= i of s that holds no whitespace (Len(s) + 1 when none).
SkipSpace(s, i) ==
    IF \E k \in i..Len(s) : ~IsSpace(s[k])
    THEN CHOOSE k \in i..Len(s) : ~IsSpace(s[k]) /\ \A j \in i..(k - 1) : IsSpace(s[j])
    ELSE Len(s) + 1

\* ------------------------------------------------------------------------
\* Locating the object literal
\* ------------------------------------------------------------------------
\* The head export\s+default\s+{ matched at index i: the index of its "{", else 0.
HeadAt(s, i) ==
    IF i > Len(s) \/ s[i] # "export" THEN 0
    ELSE LET d == SkipSpace(s, i + 1)
         IN  IF d = i + 1 \/ d > Len(s) \/ s[d] # "default" THEN 0
             ELSE LET b == SkipSpace(s, d + 1)
                  IN  IF b = d + 1 \/ b > Len(s) \/ s[b] # "{" THEN 0 ELSE b

\* re.search(r'export\s+default\s+({[\s\S]+})', content): group(1), or NoMatch.
\* [\s\S]+ is greedy and needs one character, so the block ends at the last "}"
\* of the content, which must lie at least two places after the "{".
NoMatch == << "NoMatch" >>

GenSearch(content) ==
    LET last == LastIndexOf(content, "}")
        ok(i) == HeadAt(content, i) # 0 /\ last >= HeadAt(content, i) + 2
    IN  IF \E i \in 1..Len(content) : ok(i)
        THEN LET i0 == CHOOSE i \in 1..Len(content) : ok(i) /\ \A j \in 1..(i - 1) : ~ok(j)
             IN  SubSeq(content, HeadAt(content, i0), last)
        ELSE NoMatch

\* re.search(r'export\s+default\s+({[\s\S]+})\s*$', content): group(1), or NoMatch.
\* The "}" that ends the block must be followed by whitespace only, up to the
\* end of the content.
ExtSearch(content) ==
    LET end == Len(RStripSet(content, {SP, NL}))
        ok(i) == /\ HeadAt(content, i) # 0
                 /\ end >= HeadAt(content, i) + 2
                 /\ content[end] = "}"
    IN  IF \E i \in 1..Len(content) : ok(i)
        THEN LET i0 == CHOOSE i \in 1..Len(content) : ok(i) /\ \A j \in 1..(i - 1) : ~ok(j)
             IN  SubSeq(content, HeadAt(content, i0), end)
        ELSE NoMatch

\* ------------------------------------------------------------------------
\* Outcomes of a call: a returned value or a raised exception
\* ------------------------------------------------------------------------
Return(v) == [kind |-> "return", type |-> "", value |-> v]
Raise(t, m) == [kind |-> "raise", type |-> t, value |-> m]

\* ------------------------------------------------------------------------
\* GenerateTypesTS._generate_interface
\* ------------------------------------------------------------------------
\* One iteration of parse_ts_object's loop: st = [lines, indent_level] after `raw`.
ParseTsLine(st, raw) ==
    LET line == Strip(raw)
    IN  IF line = << >> \/ line = << "export", SP, "default", SP, "{" >> THEN st
        ELSE IF line \in { << "}" >>, << "}", "," >> } THEN
            LET lvl == st.indent_level - 1
            IN  [ lines |-> IF lvl >= 0 THEN Append(st.lines, Indent(lvl) \o << "}" >>)
                            ELSE st.lines,
                  indent_level |-> lvl ]
        ELSE IF IndexOf(line, ":") # 0 THEN
            LET c     == IndexOf(line, ":")
                key   == StripSet(StripSet(Strip(SubSeq(line, 1, c - 1)), {SQ}), {DQ})
                value == RStripSet(Strip(From(line, c + 1)), {","})
                v     == Strip(value)
            IN  IF v = << "{" >> THEN
                    [ lines |-> Append(st.lines, Indent(st.indent_level) \o key \o << ":", SP, "{" >>),
                      indent_level |-> st.indent_level + 1 ]
                ELSE IF v # << >> /\ v[1] \in {SQ, DQ} THEN
                    [ lines |-> Append(st.lines,
                                       Indent(st.indent_level) \o key \o << ":", SP, "string" >>),
                      indent_level |-> st.indent_level ]
                ELSE st
        ELSE st

\* The loop's indent_level before line k: every `key: {` line before it added
\* one and every closing line took one away.
IndentBefore(raws, k) ==
    LET step(j) == ParseTsLine([lines |-> << >>, indent_level |-> 0], raws[j]).indent_level
    IN  Cardinality({ j \in 1..(k - 1) : step(j) = 1 })
        - Cardinality({ j \in 1..(k - 1) : step(j) = -1 })

\* parse_ts_object(content): the loop's final state; the code returns its lines.
\* Line k appends what the loop body appends at the indent_level it meets.
parse_ts_object(content) ==
    LET raws == SplitLines(content)
        at(k) == ParseTsLine([lines |-> << >>, indent_level |-> IndentBefore(raws, k)], raws[k])
    IN  [ lines |-> Flatten([ k \in 1..Len(raws) |-> at(k).lines ], 1, Len(raws)),
          indent_level |-> IndentBefore(raws, Len(raws) + 1) ]

\* The lines of ls that are not blank after strip().
NonBlank(ls) == SelectSeq(ls, LAMBDA l : Strip(l) # << >>)

\* "{\n" + "\n".join(...) + "\n}"
Envelope(ls) == << "{", NL >> \o JoinLines(NonBlank(ls)) \o << NL, "}" >>

GenFormatMsg == << "Invalid zh.ts file format" >>

generate_interface(content) ==
    LET m == GenSearch(content)
    IN  IF m = NoMatch THEN Raise("ValueError", GenFormatMsg)
        ELSE Return(Envelope(parse_ts_object(m).lines))

\* ------------------------------------------------------------------------
\* CompareI18nKeys._extract_keys: normalisation towards JSON
\* ------------------------------------------------------------------------
\* s with each character replaced by its piece.
Rewrite(s, pieces) == Flatten(pieces, 1, Len(s))

\* The first and the last index of the run of word characters that holds i.
WordFirst(s, i) == CHOOSE k \in 1..i : \A j \in k..i : IsWord(s[j]) /\ (k = 1 \/ ~IsWord(s[k - 1]))
WordLast(s, i) ==
    CHOOSE k \in i..Len(s) : \A j \in i..k : IsWord(s[j]) /\ (k = Len(s) \/ ~IsWord(s[k + 1]))

\* ^(\s*) ends before index w: only whitespace lies between some line start
\* and w.
AfterLineStart(s, w) ==
    \E i \in 1..w : (i = 1 \/ s[i - 1] = NL) /\ \A j \in i..(w - 1) : IsSpace(s[j])

\* The word that holds i is a key that (?m)^(\s*)(\w+): matches.
IsBareKey(s, i) ==
    /\ IsWord(s[i])
    /\ WordLast(s, i) < Len(s)
    /\ s[WordLast(s, i) + 1] = ":"
    /\ AfterLineStart(s, WordFirst(s, i))

\* re.sub(r'(?m)^(\s*)(\w+):', r'\1"\2":', s): a quote goes before the first
\* and after the last character of each matched key.
QuoteKeys(s) ==
    Rewrite(s, [ i \in 1..Len(s) |->
        IF ~IsBareKey(s, i) THEN << s[i] >>
        ELSE ( IF WordFirst(s, i) = i THEN << DQ >> ELSE << >> )
             \o << s[i] >>
             \o ( IF WordLast(s, i) = i THEN << DQ >> ELSE << >> ) ])

\* The number of single quotes in s[1..i].
QuotesUpTo(s, i) == Cardinality({ j \in 1..i : s[j] = SQ })

\* re.sub(r"'([^']*)'", r'"\1"', s): single quotes are paired off left to
\* right, and a last one without a partner stays.
SingleToDouble(s) ==
    Rewrite(s, [ i \in 1..Len(s) |->
        IF s[i] = SQ /\ ( QuotesUpTo(s, i) % 2 = 0 \/ QuotesUpTo(s, i) < QuotesUpTo(s, Len(s)) )
        THEN << DQ >> ELSE << s[i] >> ])

\* re.sub(r',(\s*[}\]])', r'\1', s): a comma goes when a closing bracket is the
\* next character that is no whitespace.
StripCommas(s) ==
    Rewrite(s, [ i \in 1..Len(s) |->
        IF s[i] = "," /\ SkipSpace(s, i + 1) <= Len(s) /\ s[SkipSpace(s, i + 1)] \in {"}", "]"}
        THEN << >> ELSE << s[i] >> ])

\* Lines 181-187: the three substitutions, in the code's order.
Normalize(obj_content) == StripCommas(SingleToDouble(QuoteKeys(obj_content)))

\* ------------------------------------------------------------------------
\* json.loads, for the values the inputs contain: objects and strings
\* ------------------------------------------------------------------------
Leaf == [t |-> "str", items |-> << >>]
Dict(f) == [t |-> "dict", items |-> f]

\* d[k] = v on a Python dict: a repeated key keeps the last value.
Put(d, k, v) == [x \in (DOMAIN d) \cup {k} |-> IF x = k THEN v ELSE d[x]]

JsonFail == [ok |-> FALSE, pos |-> 0, val |-> Leaf]

\* A string that starts at s[i] = '"': it runs to the next '"' and, the parser
\* being strict, holds no control character (no raw newline).
JsonString(s, i) ==
    LET j == IndexOf(From(s, i + 1), DQ)
    IN  IF j = 0 \/ \E k \in (i + 1)..(i + j - 1) : s[k] = NL THEN JsonFail
        ELSE [ok |-> TRUE, pos |-> i + j + 1, val |-> SubSeq(s, i + 1, i + j - 1)]

RECURSIVE JsonObject(_, _)
RECURSIVE JsonMembers(_, _, _)

\* The value that starts at s[i]: a string or an object.
JsonValue(s, i) ==
    IF i > Len(s) THEN JsonFail
    ELSE IF s[i] = DQ THEN [JsonString(s, i) EXCEPT !.val = Leaf]
    ELSE IF s[i] = "{" THEN JsonObject(s, i)
    ELSE JsonFail

\* After a member's value at s[e], d the pairs so far: "}" ends the object,
\* "," must be followed by the next key.
JsonAfterMember(s, e, d) ==
    IF e > Len(s) THEN JsonFail
    ELSE IF s[e] = "}" THEN [ok |-> TRUE, pos |-> e + 1, val |-> Dict(d)]
    ELSE IF s[e] = "," /\ SkipSpace(s, e + 1) <= Len(s) /\ s[SkipSpace(s, e + 1)] = DQ
    THEN JsonMembers(s, SkipSpace(s, e + 1), d)
    ELSE JsonFail

\* A member whose key `name` is read and whose value is v.
JsonAfterValue(s, d, name, v) ==
    IF ~v.ok THEN JsonFail ELSE JsonAfterMember(s, SkipSpace(s, v.pos), Put(d, name, v.val))

\* A member whose key is read, c the index after the key and its whitespace.
JsonAfterKey(s, d, key, c) ==
    IF ~key.ok \/ c > Len(s) \/ s[c] # ":" THEN JsonFail
    ELSE JsonAfterValue(s, d, key.val, JsonValue(s, SkipSpace(s, c + 1)))

\* The position after a string, and after the whitespace that follows it.
AfterString(s, r) == IF r.ok THEN SkipSpace(s, r.pos) ELSE 0

\* The members of an object from the key that starts at s[k] = '"', d the pairs so far.
JsonMembers(s, k, d) ==
    JsonAfterKey(s, d, JsonString(s, k), AfterString(s, JsonString(s, k)))

\* An object that starts at s[i] = "{".
JsonObjectAt(s, k) ==
    IF k > Len(s) THEN JsonFail
    ELSE IF s[k] = "}" THEN [ok |-> TRUE, pos |-> k + 1, val |-> Dict(<< >>)]
    ELSE IF s[k] = DQ THEN JsonMembers(s, k, << >>)
    ELSE JsonFail

JsonObject(s, i) == JsonObjectAt(s, SkipSpace(s, i + 1))

\* The parse is complete when only whitespace follows the value.
JsonWhole(s, v) == IF v.ok /\ SkipSpace(s, v.pos) > Len(s) THEN v ELSE JsonFail

\* json.loads(s): one value, surrounded by whitespace only.
json_loads(s) == JsonWhole(s, JsonValue(s, SkipSpace(s, 1)))

\* ------------------------------------------------------------------------
\* CompareI18nKeys._extract_keys
\* ------------------------------------------------------------------------
\* collect_keys(obj, prefix): the dot-joined paths of the values that are no dict.
RECURSIVE collect_keys(_, _)
collect_keys(obj, prefix) ==
    UNION { LET full_key == IF prefix # << >> THEN prefix \o << "." >> \o key ELSE key
            IN  IF obj[key].t = "dict" THEN collect_keys(obj[key].items, full_key)
                ELSE { full_key }
            : key \in DOMAIN obj }

ExtFormatMsg == << "Invalid i18n file format: missing 'export default'" >>
NameErrorMsg == << "name 'workflow_logger' is not defined" >>

\* Lines 170-195, the body of the outer try: the keys, or the exception that
\* reaches the outer handler.  _extract_keys has no name workflow_logger in
\* scope (it is a parameter of execute only, and the module defines no such
\* global), so the JSONDecodeError handler's first statement, line 193, raises
\* NameError and lines 194-195 never run.
ExtractParsed(i18n_dict) ==
    IF i18n_dict.ok THEN Return(collect_keys(i18n_dict.val.items, << >>))
    ELSE Raise("NameError", NameErrorMsg)

ExtractMatched(m) ==
    IF m = NoMatch THEN Raise("ValueError", ExtFormatMsg)
    ELSE ExtractParsed(json_loads(Normalize(m)))

ExtractBody(content) == ExtractMatched(ExtSearch(content))

\* Lines 197-199, the outer handler: its first statement, line 198, evaluates
\* workflow_logger too and raises NameError; the ValueError of line 199 is
\* never raised.
ExtractOuter(r) == IF r.kind = "return" THEN r ELSE Raise("NameError", NameErrorMsg)

extract_keys(content) == ExtractOuter(ExtractBody(content))

\* ------------------------------------------------------------------------
\* CompareI18nKeys.execute: the comparison
\* ------------------------------------------------------------------------
\* ord(c) of the first character of a token.
Ord(c) ==
    CASE c = NL -> 10 [] c = SP -> 32 [] c = DQ -> 34 [] c = SQ -> 39 [] c = "," -> 44
      [] c = "." -> 46 [] c = ":" -> 58 [] c = ";" -> 59 [] c = "=" -> 61 [] c = "a" -> 97 [] c = "b" -> 98
      [] c = "const" -> 99 [] c = "default" -> 100 [] c = "export" -> 101
      [] c = "x" -> 120 [] c = "{" -> 123 [] c = "}" -> 125 [] OTHER -> 0

\* s < t on Python strings: by code point, a proper prefix first.
RECURSIVE StrLess(_, _)
StrLess(s, t) ==
    IF t = << >> THEN FALSE
    ELSE IF s = << >> THEN TRUE
    ELSE IF Ord(Head(s)) # Ord(Head(t)) THEN Ord(Head(s)) < Ord(Head(t))
    ELSE StrLess(Tail(s), Tail(t))

\* list(S) left as the set hands it over, here from the greatest string down.
RECURSIVE listed(_)
listed(S) ==
    IF S = {} THEN << >>
    ELSE LET m == CHOOSE x \in S : \A y \in S \ {x} : StrLess(y, x)
         IN  << m >> \o listed(S \ {m})

\* sorted(list(S)) for a set S of strings.
RECURSIVE sorted(_)
sorted(S) ==
    IF S = {} THEN << >>
    ELSE LET m == CHOOSE x \in S : \A y \in S \ {x} : StrLess(x, y)
         IN  << m >> \o sorted(S \ {m})

\* Lines 223-224.
MissingIn2(keys1, keys2) == sorted(keys1 \ keys2)
MissingIn1(keys1, keys2) == sorted(keys2 \ keys1)

\* Line 226.
IsIdentical(missing_in_1, missing_in_2) == Len(missing_in_1) = 0 /\ Len(missing_in_2) = 0

\* os.path.basename of a path, a path being the sequence of its components.
Basename(path) == path[Len(path)]

\* f"missing_in_{name}"
Label(name) == << "missing_in_", name >>

\* Lines 228-234: the dict display; of two equal labels the later entry stays.
Report(file1_name, file2_name, missing_in_1, missing_in_2, is_identical) ==
    [ is_identical |-> is_identical,
      missing_keys |-> Put(Put(<< >>, Label(file2_name), missing_in_2),
                           Label(file1_name), missing_in_1) ]

\* ------------------------------------------------------------------------
\* The inputs: catalogs and the ways of writing them down
\* ------------------------------------------------------------------------
\* A catalog is a row of entries with distinct keys; an entry is a string leaf
\* or a nested row.  Nesting goes one level deep here.
Keys == { << "a" >>, << "b" >> }

LeafEntry(k) == [key |-> k, leaf |-> TRUE, kids |-> << >>]
NestEntry(k, r) == [key |-> k, leaf |-> FALSE, kids |-> r]

Rows(E) ==
    { << >> } \cup { << e >> : e \in E }
              \cup { << e[1], e[2] >> : e \in { p \in E \X E : p[1].key # p[2].key } }

\* A nested object holds no leaf, one leaf or two.
InnerRows ==
    { << >>, << LeafEntry(<< "a" >>) >>, << LeafEntry(<< "b" >>), LeafEntry(<< "a" >>) >> }

Catalogs ==
    Rows({ LeafEntry(k) : k \in Keys } \cup { NestEntry(k, r) : k \in Keys, r \in InnerRows })

\* How a catalog is written: the statement that holds the object, one entry
\* per line or all on one line, the quotes of keys and values, a comma after
\* the last entry, an empty object as "{}" or on two lines, and what follows
\* the last brace.
Style(head, multi, kq, vq, comma, inline, tail) ==
    [head |-> head, multi |-> multi, kq |-> kq, vq |-> vq, comma |-> comma,
     inline_empty |-> inline, tail |-> tail]

ExportHead == << "export", SP, "default" >>
ConstHead  == << "const", SP, "x", SP, "=" >>

Canonical == Style(ExportHead, TRUE, << >>, << SQ >>, TRUE, FALSE, << >>)

Styles ==
    { Canonical,
      Style(ExportHead, TRUE, << SQ >>, << SQ >>, TRUE, FALSE, << NL >>),
      Style(ExportHead, TRUE, << >>, << DQ >>, FALSE, FALSE, << >>),
      Style(ExportHead, TRUE, << >>, << SQ >>, TRUE, FALSE, << ";" >>),
      Style(ExportHead, TRUE, << >>, << SQ >>, TRUE, TRUE, << >>),
      Style(ExportHead, FALSE, << >>, << SQ >>, FALSE, TRUE, << >>),
      Style(ConstHead, TRUE, << >>, << SQ >>, TRUE, FALSE, << >>) }

\* The styles that write a valid catalog module.
ValidStyle(st) == st.head = ExportHead

Sep(i, n, st) == IF i < n \/ st.comma THEN << "," >> ELSE << >>

\* One entry per line, indented two spaces per level.
RECURSIVE RenderMulti(_, _, _, _)
RenderMulti(rows, i, depth, st) ==
    IF i > Len(rows) THEN << >>
    ELSE LET e   == rows[i]
             k   == Indent(depth) \o st.kq \o e.key \o st.kq \o << ":", SP >>
             sep == Sep(i, Len(rows), st) \o << NL >>
         IN  ( IF e.leaf THEN k \o st.vq \o << "x" >> \o st.vq \o sep
               ELSE IF e.kids = << >> /\ st.inline_empty THEN k \o << "{", "}" >> \o sep
               ELSE k \o << "{", NL >> \o RenderMulti(e.kids, 1, depth + 1, st)
                      \o Indent(depth) \o << "}" >> \o sep )
             \o RenderMulti(rows, i + 1, depth, st)

\* Everything on one line.
RECURSIVE RenderInline(_, _, _)
RenderInline(rows, i, st) ==
    IF rows = << >> THEN << "{", "}" >>
    ELSE IF i > Len(rows) THEN << SP, "}" >>
    ELSE LET e == rows[i]
             k == st.kq \o e.key \o st.kq \o << ":", SP >>
         IN  ( IF i = 1 THEN << "{", SP >> ELSE << SP >> )
             \o ( IF e.leaf THEN k \o st.vq \o << "x" >> \o st.vq
                  ELSE k \o RenderInline(e.kids, 1, st) )
             \o Sep(i, Len(rows), st)
             \o RenderInline(rows, i + 1, st)

\* The text of catalog `rows` written in style st.
Render(rows, st) ==
    st.head \o << SP >>
    \o ( IF ~st.multi THEN RenderInline(rows, 1, st)
         ELSE IF rows = << >> /\ st.inline_empty THEN << "{", "}" >>
         ELSE << "{", NL >> \o RenderMulti(rows, 1, 1, st) \o << "}" >> )
    \o st.tail

\* The leaves of a catalog: the dot-joined chain of keys down to each string.
RECURSIVE LeafPaths(_, _)
LeafPaths(rows, prefix) ==
    UNION { IF rows[i].leaf THEN { prefix \o rows[i].key }
            ELSE LeafPaths(rows[i].kids, prefix \o rows[i].key \o << "." >>)
            : i \in 1..Len(rows) }

\* The interface lines of a catalog: "<key>: string" per leaf, "<key>: {" and
\* "}" around each nested object, two spaces per level, in source order.
RECURSIVE InterfaceLines(_, _, _)
InterfaceLines(rows, i, depth) ==
    IF i > Len(rows) THEN << >>
    ELSE ( IF rows[i].leaf THEN << Indent(depth) \o rows[i].key \o << ":", SP, "string" >> >>
           ELSE << Indent(depth) \o rows[i].key \o << ":", SP, "{" >> >>
                \o InterfaceLines(rows[i].kids, 1, depth + 1)
                \o << Indent(depth) \o << "}" >> >> )
         \o InterfaceLines(rows, i + 1, depth)

\* ------------------------------------------------------------------------
\* State
\* ------------------------------------------------------------------------
VARIABLES
    files,        \* the files that exist: path -> text
    dirs,         \* the directories that exist, among the output directories
    authored,     \* how each input file was written: path -> [catalog, style]
    pc,           \* the statement the running call is at, "idle" between calls
    node_inputs,  \* the running call's node_inputs: input name -> value
    frame,        \* the running call's local variables
    fs0,          \* files and dirs as they were when the running call started
    result,       \* the last finished call: [op, inputs, stage, outcome]
    prev,         \* the call before that, kept when it is a comparison that returned
    calls         \* the number of calls started

vars == << files, dirs, authored, pc, node_inputs, frame, fs0, result, prev, calls >>

\* The number of calls a run makes.
MaxCalls == 2

FirstPath == << "a", "en.ts" >>
OutDir    == << "out" >>

\* os.path.join(output_dir, "types.ts")
OutputFile(output_dir) == Append(output_dir, "types.ts")

\* The catalogs the first file is drawn from in every style, and the second
\* file in the canonical one.
SampleCatalogs ==
    { << >>,
      << LeafEntry(<< "b" >>), LeafEntry(<< "a" >>) >>,
      << NestEntry(<< "a" >>, << LeafEntry(<< "b" >>), LeafEntry(<< "a" >>) >>) >>,
      << NestEntry(<< "b" >>, << >>), LeafEntry(<< "a" >>) >> }

FirstFiles ==
    { [catalog |-> c, style |-> Canonical] : c \in Catalogs }
    \cup { [catalog |-> c, style |-> st] : c \in SampleCatalogs, st \in Styles }

\* The second file lies in another directory, under the first file's name or
\* under another one; the other of the two paths names no file.
SecondPaths == { << "b", "en.ts" >>, << "b", "zh.ts" >> }
SecondFiles ==
    { [catalog |-> c, style |-> Canonical] :
        c \in { << >>,
                << NestEntry(<< "a" >>, << LeafEntry(<< "b" >>), LeafEntry(<< "a" >>) >>),
                   LeafEntry(<< "b" >>) >> } }

NoFrame ==
    [ content |-> << >>, types_content |-> << >>, output_file |-> << >>,
      content1 |-> << >>, content2 |-> << >>, file1_name |-> "", file2_name |-> "",
      keys1 |-> {}, keys2 |-> {}, missing_in_1 |-> << >>, missing_in_2 |-> << >>,
      is_identical |-> FALSE ]

NoCall == [op |-> "none", inputs |-> << >>, stage |-> "", outcome |-> Return(<< >>)]

Init ==
    /\ \E f1 \in FirstFiles, p2 \in SecondPaths, f2 \in SecondFiles :
          authored = (FirstPath :> f1) @@ (p2 :> f2)
          /\ files = [p \in DOMAIN authored |-> Render(authored[p].catalog, authored[p].style)]
    /\ dirs = {}
    /\ pc = "idle"
    /\ node_inputs = << >>
    /\ frame = NoFrame
    /\ fs0 = [files |-> << >>, dirs |-> {}]
    /\ result = NoCall
    /\ prev = NoCall
    /\ calls = 0

\* The paths a caller passes: the two catalogs' paths, and a path that names
\* no file.
SecondPath  == CHOOSE p \in SecondPaths : p \in DOMAIN authored
MissingPath == CHOOSE p \in SecondPaths : p \notin DOMAIN authored

\* A call ends: its record becomes `result`, the locals are gone.  `prev`
\* keeps the record it replaces when that is a comparison that returned.
Finish(op, stage, outcome) ==
    /\ result' = [op |-> op, inputs |-> node_inputs, stage |-> stage, outcome |-> outcome]
    /\ prev' = IF result.op = "compare" /\ result.outcome.kind = "return" THEN result ELSE NoCall
    /\ pc' = "idle"
    /\ frame' = NoFrame
    /\ node_inputs' = << >>

\* str(e) of the exceptions the calls meet.
KeyErrorMsg(name) == << SQ, name, SQ >>
NotFoundMsg(path) == << "[Errno 2] No such file or directory: ", SQ >> \o path \o << SQ >>
DeniedMsg(path)   == << "[Errno 13] Permission denied: ", SQ >> \o path \o << SQ >>
NoSpaceMsg        == << "[Errno 28] No space left on device" >>

\* ------------------------------------------------------------------------
\* GenerateTypesTS.execute, statement by statement
\* ------------------------------------------------------------------------
GenInputs ==
    { [zh_ts_file |-> p, output_dir |-> OutDir] : p \in { FirstPath, MissingPath } }
    \cup { [output_dir |-> OutDir] }

\* Lines 70-72: every exception becomes a failure result.
GenFail(stage, msg) ==
    Finish("generate", stage, Return([success |-> FALSE, error_message |-> msg]))

\* The engine calls execute(node_inputs, workflow_logger).
GenStart ==
    /\ pc = "idle"
    /\ calls < MaxCalls
    /\ \E ni \in GenInputs : node_inputs' = ni
    /\ pc' = "gen_read"
    /\ calls' = calls + 1
    /\ fs0' = [files |-> files, dirs |-> dirs]
    /\ UNCHANGED << files, dirs, authored, frame, result, prev >>

\* Lines 42-49: the two inputs, then the file's text.
GenRead ==
    /\ pc = "gen_read"
    /\ IF "zh_ts_file" \notin DOMAIN node_inputs
       THEN GenFail("read", KeyErrorMsg("zh_ts_file"))
       ELSE IF "output_dir" \notin DOMAIN node_inputs
       THEN GenFail("read", KeyErrorMsg("output_dir"))
       ELSE IF node_inputs.zh_ts_file \notin DOMAIN files
       THEN GenFail("read", NotFoundMsg(node_inputs.zh_ts_file))
       ELSE /\ frame' = [frame EXCEPT !.content = files[node_inputs.zh_ts_file]]
            /\ pc' = "gen_interface"
            /\ UNCHANGED << node_inputs, result, prev >>
    /\ UNCHANGED << files, dirs, authored, fs0, calls >>

\* Lines 55-57: the text of types.ts around an interface body.
TypesContent(interface_content) ==
    << "export", SP, "interface", SP, "I18nMessages", SP >> \o interface_content \o << NL, NL >>

\* Lines 52-57 with line 59 moved before them: the directory is made first.
GenInterfaceEarlyMakedirs ==
    /\ pc = "gen_interface"
    /\ dirs' = dirs \cup { node_inputs.output_dir }
    /\ LET r == generate_interface(frame.content)
       IN  IF r.kind = "raise" THEN GenFail("interface", r.value)
           ELSE /\ frame' = [frame EXCEPT !.types_content = TypesContent(r.value)]
                /\ pc' = "gen_makedirs"
                /\ UNCHANGED << node_inputs, result, prev >>
    /\ UNCHANGED << files, authored, fs0, calls >>

\* Lines 52-57.
GenInterface ==
    /\ pc = "gen_interface"
    /\ LET r == generate_interface(frame.content)
       IN  IF r.kind = "raise" THEN GenFail("interface", r.value)
           ELSE /\ frame' = [frame EXCEPT !.types_content = TypesContent(r.value)]
                /\ pc' = "gen_makedirs"
                /\ UNCHANGED << node_inputs, result, prev >>
    /\ UNCHANGED << files, dirs, authored, fs0, calls >>

\* Line 59: os.makedirs(output_dir, exist_ok=True) makes the directory, or
\* fails and makes nothing.
GenMakedirs ==
    /\ pc = "gen_makedirs"
    /\ \/ /\ dirs' = dirs \cup { node_inputs.output_dir }
          /\ pc' = "gen_open"
          /\ UNCHANGED << node_inputs, frame, result, prev >>
       \/ /\ node_inputs.output_dir \notin dirs
          /\ GenFail("makedirs", DeniedMsg(node_inputs.output_dir))
          /\ UNCHANGED dirs
    /\ UNCHANGED << files, authored, fs0, calls >>

\* Lines 62-63: open(output_file, "w") creates the file or empties it, or fails.
GenOpen ==
    /\ pc = "gen_open"
    /\ LET output_file == OutputFile(node_inputs.output_dir)
       IN  \/ /\ files' = (output_file :> << >>) @@ files
              /\ frame' = [frame EXCEPT !.output_file = output_file]
              /\ pc' = "gen_write"
              /\ UNCHANGED << node_inputs, result, prev >>
           \/ /\ GenFail("open", DeniedMsg(output_file))
              /\ UNCHANGED files
    /\ UNCHANGED << dirs, authored, fs0, calls >>

\* What a write that fails leaves in the file: nothing, or all but the end.
Partial(text) == { << >>, SubSeq(text, 1, Len(text) - 1) }

\* Line 64 and the end of the with block: the text is written and the file closed.
GenWrite ==
    /\ pc = "gen_write"
    /\ \/ /\ files' = [files EXCEPT ![frame.output_file] = frame.types_content]
          /\ pc' = "gen_return"
          /\ UNCHANGED << node_inputs, frame, result, prev >>
       \/ /\ \E part \in Partial(frame.types_content) :
                files' = [files EXCEPT ![frame.output_file] = part]
          /\ GenFail("write", NoSpaceMsg)
    /\ UNCHANGED << dirs, authored, fs0, calls >>

\* Lines 66-68.
GenReturn ==
    /\ pc = "gen_return"
    /\ Finish("generate", "return", Return([success |-> TRUE, result |-> frame.output_file]))
    /\ UNCHANGED << files, dirs, authored, fs0, calls >>

\* ------------------------------------------------------------------------
\* CompareI18nKeys.execute, statement by statement
\* ------------------------------------------------------------------------
CmpInputs ==
    { [first_file |-> FirstPath, second_file |-> q] : q \in { FirstPath, SecondPath, MissingPath } }
    \cup { [first_file |-> SecondPath, second_file |-> FirstPath] }
    \cup { [first_file |-> FirstPath] }

ComparePrefix == << "Failed to compare i18n files: " >>

\* Lines 247-249: every exception is raised again as a ValueError.
CmpFail(stage, msg) ==
    Finish("compare", stage, Raise("ValueError", ComparePrefix \o msg))

CmpStart ==
    /\ pc = "idle"
    /\ calls < MaxCalls
    /\ \E ni \in CmpInputs : node_inputs' = ni
    /\ pc' = "cmp_read"
    /\ calls' = calls + 1
    /\ fs0' = [files |-> files, dirs |-> dirs]
    /\ UNCHANGED << files, dirs, authored, frame, result, prev >>

\* Lines 203-216: the two inputs, the two files' texts, the two base names.
CmpRead ==
    /\ pc = "cmp_read"
    /\ IF "first_file" \notin DOMAIN node_inputs
       THEN CmpFail("read", KeyErrorMsg("first_file"))
       ELSE IF "second_file" \notin DOMAIN node_inputs
       THEN CmpFail("read", KeyErrorMsg("second_file"))
       ELSE IF node_inputs.first_file \notin DOMAIN files
       THEN CmpFail("read", NotFoundMsg(node_inputs.first_file))
       ELSE IF node_inputs.second_file \notin DOMAIN files
       THEN CmpFail("read", NotFoundMsg(node_inputs.second_file))
       ELSE /\ frame' = [frame EXCEPT !.content1 = files[node_inputs.first_file],
                                      !.content2 = files[node_inputs.second_file],
                                      !.file1_name = Basename(node_inputs.first_file),
                                      !.file2_name = Basename(node_inputs.second_file)]
            /\ pc' = "cmp_extract"
            /\ UNCHANGED << node_inputs, result, prev >>
    /\ UNCHANGED << files, dirs, authored, fs0, calls >>

\* Lines 219-220.
CmpExtract ==
    /\ pc = "cmp_extract"
    /\ LET k1 == extract_keys(frame.content1)
           k2 == extract_keys(frame.content2)
       IN  IF k1.kind = "raise" THEN CmpFail("extract", k1.value)
           ELSE IF k2.kind = "raise" THEN CmpFail("extract", k2.value)
           ELSE /\ frame' = [frame EXCEPT !.keys1 = k1.value, !.keys2 = k2.value]
                /\ pc' = "cmp_diff"
                /\ UNCHANGED << node_inputs, result, prev >>
    /\ UNCHANGED << files, dirs, authored, fs0, calls >>

\* Lines 223-226.
CmpDiff ==
    /\ pc = "cmp_diff"
    /\ LET missing_in_2 == MissingIn2(frame.keys1, frame.keys2)
           missing_in_1 == MissingIn1(frame.keys1, frame.keys2)
       IN  frame' = [frame EXCEPT !.missing_in_2 = missing_in_2,
                                  !.missing_in_1 = missing_in_1,
                                  !.is_identical = IsIdentical(missing_in_1, missing_in_2)]
    /\ pc' = "cmp_return"
    /\ UNCHANGED << files, dirs, authored, node_inputs, fs0, result, prev, calls >>

\* Lines 228-245.
CmpReturn ==
    /\ pc = "cmp_return"
    /\ Finish("compare", "return",
              Return(Report(frame.file1_name, frame.file2_name,
                            frame.missing_in_1, frame.missing_in_2, frame.is_identical)))
    /\ UNCHANGED << files, dirs, authored, fs0, calls >>

\* ------------------------------------------------------------------------
\* The specification
\* ------------------------------------------------------------------------
Next ==
    \/ GenStart \/ GenRead \/ GenInterface \/ GenMakedirs \/ GenOpen \/ GenWrite \/ GenReturn
    \/ CmpStart \/ CmpRead \/ CmpExtract \/ CmpDiff \/ CmpReturn

Spec == Init /\ [][Next]_vars

\* ------------------------------------------------------------------------
\* What the claims speak of
\* ------------------------------------------------------------------------
\* The file at path p was written as a valid catalog module.
ValidCatalog(p) == p \in DOMAIN authored /\ ValidStyle(authored[p].style)

\* The leaves of the catalog written to p.
Leaves(p) == LeafPaths(authored[p].catalog, << >>)

\* The interface body of the catalog written to p.
Interface(p) ==
    << "{", NL >> \o JoinLines(InterfaceLines(authored[p].catalog, 1, 0)) \o << NL, "}" >>

Elems(l) == { l[i] : i \in DOMAIN l }

\* s comes before t in the lexicographic order of their characters.
LexBefore(s, t) ==
    \E k \in 1..Len(t) :
        /\ \A j \in 1..(k - 1) : j <= Len(s) /\ s[j] = t[j]
        /\ (k > Len(s) \/ Ord(s[k]) < Ord(t[k]))

Ascending(l) == \A i \in 1..(Len(l) - 1) : LexBefore(l[i], l[i + 1])

Idle(op) == pc = "idle" /\ result.op = op
Returned(call) == call.op = "compare" /\ call.outcome.kind = "return"

\* The list a returned comparison reports under the label of path p.
Reported(call, p) == call.outcome.value.missing_keys[Label(Basename(p))]

\* The keys _extract_keys finds in the file at p.
KeysOf(p) == extract_keys(files[p]).value

\* The object literal is found but its normalised text is no JSON.
ParseFails(text) ==
    ExtSearch(text) # NoMatch /\ ~json_loads(Normalize(ExtSearch(text))).ok

\* ------------------------------------------------------------------------
\* C1
\* ------------------------------------------------------------------------
\* C1: for every valid catalog text, a catalog without leaves included,
\* _extract_keys returns without error the set of the catalog's leaf paths,
\* one dot-joined path per leaf and nothing else.  As stated it fails: see
\* the trace.
C1_ExtractorExact ==
    /\ ( pc = "cmp_diff" /\ ValidCatalog(node_inputs.first_file)
                         /\ ValidCatalog(node_inputs.second_file) )
         => ( /\ frame.keys1 = Leaves(node_inputs.first_file)
              /\ frame.keys2 = Leaves(node_inputs.second_file) )
    /\ ( Idle("compare") /\ result.stage = "extract" )
         => ~( ValidCatalog(result.inputs.first_file) /\ ValidCatalog(result.inputs.second_file) )

\* ------------------------------------------------------------------------
\* C2
\* ------------------------------------------------------------------------
\* C2: for every valid catalog text with string leaves only,
\* _generate_interface emits one "<key>: string" line per leaf at the leaf's
\* depth, one "<key>: {" and one "}" line per nested object, in source order,
\* all blocks closed, inside the one envelope.  As stated it fails: see the
\* trace.
C2_InterfaceMirrorsCatalog ==
    /\ ( pc = "gen_makedirs" /\ ValidCatalog(node_inputs.zh_ts_file) )
         => frame.types_content = TypesContent(Interface(node_inputs.zh_ts_file))
    /\ ( Idle("generate") /\ result.stage = "interface" )
         => ~ValidCatalog(result.inputs.zh_ts_file)

\* ------------------------------------------------------------------------
\* C3
\* ------------------------------------------------------------------------
\* C3: for the two extracted key sets keys1 and keys2, missing_in_2 lists
\* exactly keys1 \ keys2 and missing_in_1 exactly keys2 \ keys1, each without
\* repetition and in ascending lexicographic order, and is_identical is true
\* exactly when both lists are empty, which is when keys1 = keys2.
C3_DiffExact ==
    pc = "cmp_return" =>
        /\ Elems(frame.missing_in_2) = frame.keys1 \ frame.keys2
        /\ Elems(frame.missing_in_1) = frame.keys2 \ frame.keys1
        /\ Ascending(frame.missing_in_2)
        /\ Ascending(frame.missing_in_1)
        /\ frame.is_identical <=> (frame.missing_in_1 = << >> /\ frame.missing_in_2 = << >>)
        /\ frame.is_identical <=> (frame.keys1 = frame.keys2)

\* C3's case: both differences are there, one with several keys to order.
C3_Witness ==
    /\ pc = "cmp_return"
    /\ Len(frame.missing_in_2) >= 3
    /\ Len(frame.missing_in_1) >= 2
    /\ ~frame.is_identical

\* ------------------------------------------------------------------------
\* C4
\* ------------------------------------------------------------------------
\* C4: for every pair of paths, two paths with one base name included, the
\* report holds under missing_in_<basename(second)> the keys of the first
\* file that the second lacks and under missing_in_<basename(first)> the keys
\* of the second that the first lacks, so is_identical is true exactly when
\* every list of missing_keys is empty.  As stated it fails: see the trace.
C4_ReportCarriesBothLists ==
    ( Idle("compare") /\ Returned(result) ) =>
        LET first  == result.inputs.first_file
            second == result.inputs.second_file
            report == result.outcome.value
        IN  /\ Elems(Reported(result, second)) = KeysOf(first) \ KeysOf(second)
            /\ Elems(Reported(result, first)) = KeysOf(second) \ KeysOf(first)
            /\ report.is_identical
                 <=> \A l \in DOMAIN report.missing_keys : report.missing_keys[l] = << >>

\* ------------------------------------------------------------------------
\* C5
\* ------------------------------------------------------------------------
\* C5: a comparison and the comparison of the same files in the other order
\* report the same lists with the roles swapped, and the same is_identical.
\* As stated it fails, through the report of C4: see the trace.
C5_SwapSymmetric ==
    ( /\ Idle("compare") /\ Returned(result) /\ Returned(prev)
      /\ prev.inputs.first_file = result.inputs.second_file
      /\ prev.inputs.second_file = result.inputs.first_file )
    => /\ Reported(prev, prev.inputs.second_file) = Reported(result, result.inputs.first_file)
       /\ Reported(prev, prev.inputs.first_file) = Reported(result, result.inputs.second_file)
       /\ prev.outcome.value.is_identical = result.outcome.value.is_identical

\* ------------------------------------------------------------------------
\* C6
\* ------------------------------------------------------------------------
\* C6: on a text without an "export default { ... }" literal both calls fail
\* with their format error as the error the caller sees, and neither returns
\* an empty interface or an empty key set.  As stated it fails: see the trace.
C6_FormatErrorSurfaces ==
    /\ ( /\ Idle("generate")
         /\ "zh_ts_file" \in DOMAIN result.inputs
         /\ result.inputs.zh_ts_file \in DOMAIN authored
         /\ ~ValidCatalog(result.inputs.zh_ts_file) )
       => /\ result.outcome.value.success = FALSE
          /\ result.outcome.value.error_message = GenFormatMsg
    /\ ( /\ Idle("compare")
         /\ "second_file" \in DOMAIN result.inputs
         /\ result.inputs.first_file \in DOMAIN authored
         /\ result.inputs.second_file \in DOMAIN authored
         /\ ~ValidCatalog(result.inputs.first_file) )
       => /\ result.outcome.kind = "raise"
          /\ Contains(result.outcome.value, ExtFormatMsg)

\* ------------------------------------------------------------------------
\* C7
\* ------------------------------------------------------------------------
\* C7: when the normalised text is no JSON the extraction fails as a whole
\* and the error the caller sees holds the normalised text.  As stated it
\* fails: see the trace.
C7_ParseErrorShowsText ==
    ( /\ Idle("compare")
      /\ "second_file" \in DOMAIN result.inputs
      /\ result.inputs.first_file \in DOMAIN authored
      /\ result.inputs.second_file \in DOMAIN authored
      /\ ParseFails(files[result.inputs.first_file]) )
    => /\ result.outcome.kind = "raise"
       /\ Contains(result.outcome.value, Normalize(ExtSearch(files[result.inputs.first_file])))

\* ------------------------------------------------------------------------
\* C8
\* ------------------------------------------------------------------------
\* C8: both execute methods turn every failure inside them into a failure
\* result with a message; no exception leaves a call, and a failed call of
\* either has the one shape.  As stated it fails: see the trace.
C8_NoExceptionEscapes ==
    ( pc = "idle" /\ result.op # "none" ) =>
        /\ result.outcome.kind = "return"
        /\ result.stage # "return" =>
              /\ DOMAIN result.outcome.value = { "success", "error_message" }
              /\ result.outcome.value.success = FALSE

\* ------------------------------------------------------------------------
\* C9
\* ------------------------------------------------------------------------
\* C9: on every text the extractor finds the object literal exactly when the
\* generator does, and both take the same text for it, also when something
\* follows the last brace.  As stated it fails: see the trace.
SameLiteral(content) ==
    /\ (GenSearch(content) = NoMatch) <=> (ExtSearch(content) = NoMatch)
    /\ GenSearch(content) = ExtSearch(content)

C9_SameObjectLiteral ==
    /\ pc = "gen_interface" => SameLiteral(frame.content)
    /\ pc = "cmp_extract" => SameLiteral(frame.content1) /\ SameLiteral(frame.content2)

\* ------------------------------------------------------------------------
\* C10
\* ------------------------------------------------------------------------
\* C10: generateTypes reads, then generates, then makes the directory, then
\* writes: until the interface is generated nothing on disk has changed, a
\* call that fails while reading or generating leaves the directory unmade
\* and types.ts as it was, and a call that reports success has written the
\* whole of types.ts into the directory.
Untouched == files = fs0.files /\ dirs = fs0.dirs

C10_EffectsInOrder ==
    /\ pc \in { "gen_read", "gen_interface", "gen_makedirs" } => Untouched
    /\ pc = "gen_open" => files = fs0.files
    /\ ( Idle("generate") /\ result.stage \in { "read", "interface" } ) => Untouched
    /\ pc = "gen_return" =>
          /\ node_inputs.output_dir \in dirs
          /\ files[frame.output_file] = frame.types_content
    /\ ( Idle("generate") /\ result.outcome.value.success ) =>
          /\ result.inputs.output_dir \in dirs
          /\ result.outcome.value.result = OutputFile(result.inputs.output_dir)
          /\ result.outcome.value.result \in DOMAIN files
          /\ files[result.outcome.value.result]
               = TypesContent(generate_interface(files[result.inputs.zh_ts_file]).value)

\* C10's case: a call fails on its input while types.ts of an earlier call lies
\* in the directory.
C10_Witness ==
    /\ Idle("generate")
    /\ result.stage \in { "read", "interface" }
    /\ OutputFile(OutDir) \in DOMAIN files
    /\ files[OutputFile(OutDir)] # << >>

====
